---- MODULE Spec2Model ----
(***************************************************************************)
(* Model of python-crawler/ml_api.py: the two lazily loaded global models  *)
(* (nlp, classifier), load_models, the startup hook and the two request    *)
(* handlers extract_entities and classify_text.                            *)
(*                                                                         *)
(* Scheduling.  The three entry points are `async def` coroutines without  *)
(* a single await in their bodies, and load_models is a plain function.    *)
(* On the event loop each of them therefore runs from its first line to    *)
(* its return (or raise) without another handler running in between.       *)
(* Requests are concurrent in that several of them are pending at the same *)
(* time and the loop picks them in any order; each handler is one action.  *)
(*                                                                         *)
(* External calls.  spacy.load and pipeline.fit are calls into libraries;  *)
(* whether they return or raise is decided by the environment (spacyRes,   *)
(* fitRes), which may change between two handlers.                         *)
(***************************************************************************)
EXTENDS Integers, Sequences, FiniteSets, TLC

\* ---- bounds ----
MaxReq == 3        \* requests issued in one run of the process
MaxEnts == 3       \* longest candidate sequence the engine returns (SpecNER)
MaxWeight == 2     \* largest weight of a class in a posterior (SpecCLS)

Reqs == 1..MaxReq

\* ---- the module-level state of ml_api.py ----
VARIABLES
    nlp,          \* global nlp: None, or the handle spacy.load returned
    classifier,   \* global classifier: None, or the fitted pipeline
    spacyCalls,   \* probe: number of spacy.load calls executed so far
    fitCalls,     \* probe: number of pipeline.fit calls executed so far
    spacyRes,     \* environment: what spacy.load does if called now
    fitRes,       \* environment: what pipeline.fit does if called now
    phase,        \* "boot" | "serving" | "crashed"
    startupRan,   \* startup_event has been run
    loadedEngines,    \* probe: handles whose spacy.load call has returned
    fittedPipelines,  \* probe: handles whose pipeline.fit call has returned
    req,          \* per request: what was asked and what the handler did
    doc,          \* local doc.ents of the NER handler that ran last
    entities,     \* local entities of the NER handler that ran last
    probs,        \* local probs of the classify handler that ran last
    category,     \* local category of the classify handler that ran last
    confidence    \* local confidence of the classify handler that ran last

vars == <<nlp, classifier, spacyCalls, fitCalls, spacyRes, fitRes, phase,
          startupRan, loadedEngines, fittedPipelines, req, doc, entities,
          probs, category, confidence>>

\* nlp = None / classifier = None (lines 17-18).  A loaded handle is
\* identified by the number of the construction call that produced it.
None == 0

SpacyOutcomes == {"ok", "OSError", "Exception"}
FitOutcomes == {"ok", "raise"}

\* The allow-list of extract_entities (line 96).
AllowList == {"PERSON", "ORG", "GPE", "LOC", "PRODUCT", "EVENT", "DATE", "MONEY"}

\* Labels the engine is made to produce in the checked inputs: every label
\* of the allow-list and one native label of en_core_web_sm outside it.
InputLabels == AllowList \cup {"CARDINAL"}

\* A candidate span (ent.text, ent.label_).  doc.ents is ordered by position
\* and its spans do not overlap, so a span's text is identified by its
\* position in the document.
Ent(i, l) == [text |-> i, label |-> l]

DocsOfLen(n) == { [i \in 1..n |-> Ent(i, f[i])] : f \in [1..n -> InputLabels] }
Docs(n) == UNION { DocsOfLen(k) : k \in 0..n }

\* Engine outputs used where the registry is studied: no candidate, one
\* that is kept, one that is dropped.
ShortDocs == {<<>>, <<Ent(1, "PERSON")>>, <<Ent(1, "CARDINAL")>>}

\* ---- load_models ----

\* Step 1 remembering that it was tried: after a first call, failed or not,
\* spacy.load is not called again.
LoadSpacy_tried_once ==
    IF nlp = None /\ spacyCalls = 0
    THEN [nlp |-> IF spacyRes = "ok" THEN spacyCalls + 1 ELSE None,
          calls |-> spacyCalls + 1,
          returned |-> IF spacyRes = "ok" THEN {spacyCalls + 1} ELSE {}]
    ELSE [nlp |-> nlp, calls |-> spacyCalls, returned |-> {}]

\* Step 1 of load_models (lines 26-35): spacy.load is called only while nlp
\* is None; nlp is assigned only if the call returns; OSError and any other
\* Exception are caught and logged, so this step never raises.
LoadSpacy ==
    IF nlp = None
    THEN [nlp |-> IF spacyRes = "ok" THEN spacyCalls + 1 ELSE None,
          calls |-> spacyCalls + 1,
          returned |-> IF spacyRes = "ok" THEN {spacyCalls + 1} ELSE {}]
    ELSE [nlp |-> nlp, calls |-> spacyCalls, returned |-> {}]

\* Step 2 without its guard: the classifier is fitted on every call.
TrainClassifier_unguarded ==
    [classifier |-> IF fitRes = "ok" THEN fitCalls + 1 ELSE None,
     calls |-> fitCalls + 1,
     returned |-> IF fitRes = "ok" THEN {fitCalls + 1} ELSE {},
     raised |-> fitRes # "ok"]

\* Step 2 with pipeline.fit inside a try block like step 1: the exception
\* is caught, classifier stays None and load_models returns normally.
TrainClassifier_caught ==
    IF classifier = None
    THEN [classifier |-> IF fitRes = "ok" THEN fitCalls + 1 ELSE None,
          calls |-> fitCalls + 1,
          returned |-> IF fitRes = "ok" THEN {fitCalls + 1} ELSE {},
          raised |-> FALSE]
    ELSE [classifier |-> classifier, calls |-> fitCalls, returned |-> {},
          raised |-> FALSE]

\* Step 2 assigning the global before fitting it (classifier = Pipeline(...)
\* and then classifier.fit): a pipeline whose fit raised stays published.
TrainClassifier_published_first ==
    IF classifier = None
    THEN [classifier |-> fitCalls + 1,
          calls |-> fitCalls + 1,
          returned |-> IF fitRes = "ok" THEN {fitCalls + 1} ELSE {},
          raised |-> fitRes # "ok"]
    ELSE [classifier |-> classifier, calls |-> fitCalls, returned |-> {},
          raised |-> FALSE]

\* Step 2 of load_models (lines 37-55): pipeline.fit is called only while
\* classifier is None, outside any try block; classifier is assigned after
\* fit has returned; an exception raised by fit leaves load_models.
TrainClassifier ==
    IF classifier = None
    THEN [classifier |-> IF fitRes = "ok" THEN fitCalls + 1 ELSE None,
          calls |-> fitCalls + 1,
          returned |-> IF fitRes = "ok" THEN {fitCalls + 1} ELSE {},
          raised |-> fitRes # "ok"]
    ELSE [classifier |-> classifier, calls |-> fitCalls, returned |-> {},
          raised |-> FALSE]

\* load_models returning from the except branches of step 1: the classifier
\* is not trained in a call whose spaCy load failed.
load_models_return_on_failure ==
    IF LoadSpacy.nlp = None
    THEN [nlp |-> None, classifier |-> classifier,
          spacyCalls |-> LoadSpacy.calls, fitCalls |-> fitCalls,
          loaded |-> {}, fitted |-> {},
          called |-> 1, raised |-> FALSE]
    ELSE [nlp |-> LoadSpacy.nlp,
          classifier |-> TrainClassifier.classifier,
          spacyCalls |-> LoadSpacy.calls,
          fitCalls |-> TrainClassifier.calls,
          loaded |-> LoadSpacy.returned,
          fitted |-> TrainClassifier.returned,
          called |-> 1,
          raised |-> TrainClassifier.raised]

\* load_models with its two steps exchanged: the classifier is trained
\* first, and an exception of pipeline.fit leaves before spaCy is tried.
load_models_classifier_first ==
    IF TrainClassifier.raised
    THEN [nlp |-> nlp, classifier |-> TrainClassifier.classifier,
          spacyCalls |-> spacyCalls, fitCalls |-> TrainClassifier.calls,
          loaded |-> {}, fitted |-> TrainClassifier.returned,
          called |-> 1, raised |-> TRUE]
    ELSE [nlp |-> LoadSpacy.nlp,
          classifier |-> TrainClassifier.classifier,
          spacyCalls |-> LoadSpacy.calls,
          fitCalls |-> TrainClassifier.calls,
          loaded |-> LoadSpacy.returned,
          fitted |-> TrainClassifier.returned,
          called |-> 1,
          raised |-> FALSE]

\* load_models (lines 20-55): step 1, then step 2, whatever step 1 did.
\* The result is the state of the globals and probes when the call ends,
\* the constructions that returned during it, and whether it ended by
\* raising.
load_models ==
    [nlp |-> LoadSpacy.nlp,
     classifier |-> TrainClassifier.classifier,
     spacyCalls |-> LoadSpacy.calls,
     fitCalls |-> TrainClassifier.calls,
     loaded |-> LoadSpacy.returned,
     fitted |-> TrainClassifier.returned,
     called |-> 1,
     raised |-> TrainClassifier.raised]

\* A handler that finds its slot loaded does not call load_models
\* (the guards of lines 84 and 106 are false).
NoLoad ==
    [nlp |-> nlp, classifier |-> classifier, spacyCalls |-> spacyCalls,
     fitCalls |-> fitCalls, loaded |-> {}, fitted |-> {},
     called |-> 0, raised |-> FALSE]

\* ---- the entity filter of extract_entities ----

\* Entity(text=ent.text, label=ent.label_) (line 93).
Entity(ent) == [text |-> ent.text, label |-> ent.label]

\* The comprehension without its condition: every span is kept.
Keep_all(ent) == TRUE

\* The condition of the comprehension (line 96).
Keep(ent) == ent.label \in AllowList

\* The comprehension building its list from the front: each kept span is
\* put before the ones kept so far.
RECURSIVE Comprehension_prepend(_, _)
Comprehension_prepend(ents, i) ==
    IF i > Len(ents) THEN <<>>
    ELSE Comprehension_prepend(ents, i + 1)
         \o (IF Keep(ents[i]) THEN <<Entity(ents[i])>> ELSE <<>>)

\* The list comprehension (lines 92-97): doc.ents is walked from its first
\* element to its last, and an Entity is appended for each span kept.
RECURSIVE Comprehension(_, _)
Comprehension(ents, i) ==
    IF i > Len(ents) THEN <<>>
    ELSE (IF Keep(ents[i]) THEN <<Entity(ents[i])>> ELSE <<>>)
         \o Comprehension(ents, i + 1)

FilterEntities(ents) == Comprehension(ents, 1)

\* ---- the fitted classifier as classify_text uses it ----

\* classifier.classes_: the distinct labels of y_train (line 47), sorted.
Classes == <<"Finance", "Health", "Sports", "Tech">>

\* A posterior over Classes: one weight per class, not all zero; the
\* probability of class i is w[i] / Sum(w).
Sum(w) == w[1] + w[2] + w[3] + w[4]
Posteriors(n) == {w \in [1..4 -> 0..n] : Sum(w) > 0}

\* The posterior used where the registry is studied: the four classes
\* equally likely, as for a text without any known word.
ShortPosteriors == {[i \in 1..4 |-> 1]}

\* np.argmax: the first index holding the largest value.
ArgMax(w) ==
    CHOOSE i \in 1..4 :
        /\ \A j \in 1..4 : w[j] <= w[i]
        /\ \A j \in 1..4 : j < i => w[j] < w[i]

\* classifier.predict([text])[0] (line 112): the class of the largest
\* posterior.
Predict(w) == Classes[ArgMax(w)]

\* classifier.predict_proba([text])[0] (line 115): the posterior itself.
PredictProba(w) == w

\* A probability: num / den.
Prob(n, d) == [num |-> n, den |-> d]
NoConfidence == [num |-> 0, den |-> 1]

\* The confidence taken from the first class instead of the largest.
Confidence_of_first_class(p) == Prob(p[1], Sum(p))

\* float(np.max(probs)) (line 116).
Confidence(p) ==
    Prob(CHOOSE x \in {p[i] : i \in 1..4} : \A j \in 1..4 : p[j] <= x, Sum(p))

\* ---- requests ----

Idle ==
    [kind |-> "none", st |-> "idle", cold |-> FALSE, peers |-> {},
     nlp0 |-> None, clf0 |-> None, nlp1 |-> None, clf1 |-> None,
     called |-> 0, loads |-> 0, fits |-> 0,
     outcome |-> "none", delegated |-> FALSE,
     sawPartial |-> FALSE, usedPartial |-> FALSE,
     calls0 |-> 0, calls1 |-> 0]

\* The slot a request of kind k needs, and the probe counting the
\* constructions of that slot.
Slot(k) == IF k = "ner" THEN nlp ELSE classifier
Calls(k) == IF k = "ner" THEN spacyCalls ELSE fitCalls

\* Ensure with the two guards exchanged: each handler tests the other
\* handler's global.
Ensure_swapped(k) ==
    IF Slot(IF k = "ner" THEN "classify" ELSE "ner") = None
    THEN load_models ELSE NoLoad

\* The guard both handlers open with (lines 84-86 and 106-107): load_models
\* is called only if the handler's own slot is None.
Ensure(k) == IF Slot(k) = None THEN load_models ELSE NoLoad

Init ==
    /\ nlp = None
    /\ classifier = None
    /\ spacyCalls = 0
    /\ fitCalls = 0
    /\ spacyRes \in SpacyOutcomes
    /\ fitRes \in FitOutcomes
    /\ phase = "boot"
    /\ startupRan = FALSE
    /\ loadedEngines = {}
    /\ fittedPipelines = {}
    /\ req = [r \in Reqs |-> Idle]
    /\ doc = <<>>
    /\ entities = <<>>
    /\ probs = <<>>
    /\ category = "none"
    /\ confidence = NoConfidence

\* The environment: the spaCy resource is installed, removed or damaged.
SetSpacyRes(v) ==
    /\ phase # "crashed"
    /\ v # spacyRes
    /\ spacyRes' = v
    /\ UNCHANGED <<nlp, classifier, spacyCalls, fitCalls, fitRes, phase,
                   startupRan, loadedEngines, fittedPipelines, req, doc,
                   entities, probs, category, confidence>>

\* The environment: fitting becomes possible or impossible (memory).
SetFitRes(v) ==
    /\ phase # "crashed"
    /\ v # fitRes
    /\ fitRes' = v
    /\ UNCHANGED <<nlp, classifier, spacyCalls, fitCalls, spacyRes, phase,
                   startupRan, loadedEngines, fittedPipelines, req, doc,
                   entities, probs, category, confidence>>

\* startup_event (lines 75-77): runs load_models once, before any request.
\* An exception leaving the hook fails the application's startup and the
\* process serves nothing.
startup_event ==
    /\ phase = "boot"
    /\ LET m == load_models IN
        /\ nlp' = m.nlp
        /\ classifier' = m.classifier
        /\ spacyCalls' = m.spacyCalls
        /\ fitCalls' = m.fitCalls
        /\ loadedEngines' = loadedEngines \cup m.loaded
        /\ fittedPipelines' = fittedPipelines \cup m.fitted
        /\ phase' = IF m.raised THEN "crashed" ELSE "serving"
    /\ startupRan' = TRUE
    /\ UNCHANGED <<spacyRes, fitRes, req, doc, entities, probs, category,
                   confidence>>

\* The hook is only registered on the router (line 75); an application that
\* does not run startup hooks (a test client used without its lifespan, an
\* application given its own lifespan) serves with both globals still None.
\* The guards of lines 84 and 106 exist for this case.
ServeWithoutStartup ==
    /\ phase = "boot"
    /\ phase' = "serving"
    /\ UNCHANGED <<nlp, classifier, spacyCalls, fitCalls, spacyRes, fitRes,
                   startupRan, loadedEngines, fittedPipelines, req, doc,
                   entities, probs, category, confidence>>

\* A request of kind k is accepted by the server and waits for the loop.
\* Requests are numbered in arrival order.  Recorded for the properties:
\* whether its slot was None on arrival, which requests of the same kind
\* were waiting at that moment, and the slot's construction count.  The
\* locals of the previous handler are kept until the next request arrives.
Arrive(r, k) ==
    /\ phase = "serving"
    /\ req[r].st = "idle"
    /\ \A q \in Reqs : q < r => req[q].st # "idle"
    /\ req' = [req EXCEPT ![r] =
                 [Idle EXCEPT !.kind = k, !.st = "pending",
                              !.cold = (Slot(k) = None),
                              !.calls0 = Calls(k),
                              !.peers = {q \in Reqs : req[q].st = "pending"
                                                      /\ req[q].kind = k}]]
    /\ doc' = <<>>
    /\ entities' = <<>>
    /\ probs' = <<>>
    /\ category' = "none"
    /\ confidence' = NoConfidence
    /\ UNCHANGED <<nlp, classifier, spacyCalls, fitCalls, spacyRes, fitRes,
                   phase, startupRan, loadedEngines, fittedPipelines>>

\* A global that is not None although the construction of the object it
\* holds has not returned.
Partial(n, c, L, F) == (n # None /\ n \notin L) \/ (c # None /\ c \notin F)

\* What a handler leaves in the request's record: the globals when it
\* started and when it ended, the calls it made, how it ended, and whether
\* it found, or was served by, an object whose construction had not
\* returned.
Done(r, m, out) ==
    [req[r] EXCEPT !.st = "done",
                   !.nlp0 = nlp, !.clf0 = classifier,
                   !.nlp1 = m.nlp, !.clf1 = m.classifier,
                   !.called = m.called,
                   !.loads = m.spacyCalls - spacyCalls,
                   !.fits = m.fitCalls - fitCalls,
                   !.outcome = out,
                   !.delegated = (out = "ner"),
                   !.sawPartial =
                       Partial(nlp, classifier, loadedEngines, fittedPipelines),
                   !.usedPartial =
                       \/ (out = "ner" /\ m.nlp \notin loadedEngines \cup m.loaded)
                       \/ (out = "cls" /\ m.classifier
                                           \notin fittedPipelines \cup m.fitted),
                   !.calls1 = IF req[r].kind = "ner" THEN m.spacyCalls
                              ELSE m.fitCalls]

\* extract_entities (lines 79-99).  D holds the candidate sequences the
\* engine may return for the request's text (line 90).
extract_entities(r, D) ==
    /\ phase = "serving"
    /\ req[r].st = "pending"
    /\ req[r].kind = "ner"
    /\ LET m == Ensure("ner")
           out == IF m.raised THEN "exc"
                  ELSE IF m.nlp = None THEN "503"
                  ELSE "ner"
       IN
        /\ nlp' = m.nlp
        /\ classifier' = m.classifier
        /\ spacyCalls' = m.spacyCalls
        /\ fitCalls' = m.fitCalls
        /\ loadedEngines' = loadedEngines \cup m.loaded
        /\ fittedPipelines' = fittedPipelines \cup m.fitted
        /\ IF out = "ner"
           THEN \E d \in D :
                  /\ doc' = d
                  /\ entities' = FilterEntities(d)
           ELSE UNCHANGED <<doc, entities>>
        /\ req' = [req EXCEPT ![r] = Done(r, m, out)]
    /\ UNCHANGED <<spacyRes, fitRes, phase, startupRan, probs, category,
                   confidence>>

\* classify_text (lines 101-118).  W holds the posteriors the fitted
\* classifier may compute for the request's text.
classify_text(r, W) ==
    /\ phase = "serving"
    /\ req[r].st = "pending"
    /\ req[r].kind = "classify"
    /\ LET m == Ensure("classify")
           out == IF m.raised THEN "exc"
                  ELSE IF m.classifier = None THEN "503"
                  ELSE "cls"
       IN
        /\ nlp' = m.nlp
        /\ classifier' = m.classifier
        /\ spacyCalls' = m.spacyCalls
        /\ fitCalls' = m.fitCalls
        /\ loadedEngines' = loadedEngines \cup m.loaded
        /\ fittedPipelines' = fittedPipelines \cup m.fitted
        /\ IF out = "cls"
           THEN \E w \in W :
                  /\ category' = Predict(w)
                  /\ probs' = PredictProba(w)
                  /\ confidence' = Confidence(PredictProba(w))
           ELSE UNCHANGED <<probs, category, confidence>>
        /\ req' = [req EXCEPT ![r] = Done(r, m, out)]
    /\ UNCHANGED <<spacyRes, fitRes, phase, startupRan, doc, entities>>

Next ==
    \/ startup_event
    \/ ServeWithoutStartup
    \/ \E v \in SpacyOutcomes : SetSpacyRes(v)
    \/ \E v \in FitOutcomes : SetFitRes(v)
    \/ \E r \in Reqs, k \in {"ner", "classify"} : Arrive(r, k)
    \/ \E r \in Reqs : extract_entities(r, ShortDocs)
    \/ \E r \in Reqs : classify_text(r, ShortPosteriors)

Spec == Init /\ [][Next]_vars

\* The entity filter on its own: a client that sends NER requests one after
\* the other, the engine returning every candidate sequence up to MaxEnts.
ArriveNER(r) ==
    /\ \A q \in Reqs : req[q].st # "pending"
    /\ Arrive(r, "ner")

NERNext ==
    \/ startup_event
    \/ ServeWithoutStartup
    \/ \E r \in Reqs : ArriveNER(r)
    \/ \E r \in Reqs : extract_entities(r, Docs(MaxEnts))

SpecNER == Init /\ [][NERNext]_vars

\* The classification on its own: a client that sends classify requests
\* one after the other, the classifier computing every posterior with
\* weights up to MaxWeight.
ArriveCLS(r) ==
    /\ \A q \in Reqs : req[q].st # "pending"
    /\ Arrive(r, "classify")

CLSNext ==
    \/ startup_event
    \/ ServeWithoutStartup
    \/ \E r \in Reqs : ArriveCLS(r)
    \/ \E r \in Reqs : classify_text(r, Posteriors(MaxWeight))

SpecCLS == Init /\ [][CLSNext]_vars

\* ---- vocabulary of the properties ----

IsDone(r) == req[r].st = "done"

\* Constructions of its own slot that request r's handler executed, and
\* the value of its own slot when the handler started.
Attempts(r) == IF req[r].kind = "ner" THEN req[r].loads ELSE req[r].fits
Own0(r) == IF req[r].kind = "ner" THEN req[r].nlp0 ELSE req[r].clf0
Seen(r) == IF req[r].kind = "ner" THEN req[r].nlp1 ELSE req[r].clf1
SawReady(r) == Seen(r) # None

\* r and q are concurrent first calls: they ask for the same capability,
\* both arrived while its slot was None, q was still waiting when r arrived,
\* and both have been answered.
Cohort(r, q) ==
    /\ r # q
    /\ IsDone(r) /\ IsDone(q)
    /\ req[r].kind = req[q].kind
    /\ req[r].cold /\ req[q].cold
    /\ q \in req[r].peers

\* Constructions of the slot executed, by anyone, from the moment both were
\* waiting until both were answered.
WindowCalls(r, q) ==
    (IF req[r].calls1 >= req[q].calls1 THEN req[r].calls1 ELSE req[q].calls1)
    - req[r].calls0

\* C1 as stated: concurrent first calls to an uninitialized capability
\* cause exactly one construction of its slot in total and all observe the
\* same terminal state, whether the construction succeeds or fails.
C1_ExactlyOneConstruction ==
    \A r, q \in Reqs :
        Cohort(r, q) =>
            /\ WindowCalls(r, q) = 1
            /\ SawReady(r) <=> SawReady(q)

\* C1 as amended: each handler of the cohort executes the construction once
\* if and only if it finds the slot still None when it runs.  Once a
\* construction has succeeded none follows and every later handler observes
\* that same handle, so if the first execution succeeds the construction
\* runs exactly once in total and all observe Ready.  A handler that ends
\* with the slot not Ready has executed the construction itself.
C1_OncePerColdHandler ==
    \A r, q \in Reqs :
        Cohort(r, q) =>
            /\ Attempts(r) = (IF Own0(r) = None THEN 1 ELSE 0)
            /\ Attempts(q) = (IF Own0(q) = None THEN 1 ELSE 0)
            /\ (SawReady(r) /\ SawReady(q)) =>
                   /\ Seen(r) = Seen(q)
                   /\ Attempts(r) + Attempts(q) <= 1
            /\ ~SawReady(r) => Attempts(r) = 1
            /\ ~SawReady(q) => Attempts(q) = 1
            /\ (Seen(r) = req[r].calls0 + 1 /\ Seen(q) = Seen(r))
                   => WindowCalls(r, q) = 1

\* Three concurrent first calls to the extractor, answered with one
\* construction in total and all three delegated on the same handle.
C1_Witness ==
    /\ \A r \in Reqs : IsDone(r) /\ req[r].kind = "ner" /\ req[r].cold
    /\ \A r, q \in Reqs : r > q => Cohort(r, q) /\ WindowCalls(r, q) = 1
    /\ \A r \in Reqs : req[r].outcome = "ner" /\ Seen(r) = nlp

\* The spacy.load (pipeline.fit) call made by r's handler raised.
SpacyFailed(r) == req[r].loads = 1 /\ req[r].nlp1 = None
FitFailed(r) == req[r].fits = 1 /\ req[r].clf1 = None

\* C2 as stated: the slots are isolated in both directions.  A classify
\* request whose spaCy load failed still gets the classifier Ready and a
\* classification result; an NER request during which fitting the
\* classifier failed still gets the extractor Ready and an NER result.
C2_Isolation ==
    \A r \in Reqs :
        IsDone(r) =>
            /\ (req[r].kind = "classify" /\ SpacyFailed(r) /\ ~FitFailed(r))
                   => (req[r].clf1 # None /\ req[r].outcome = "cls")
            /\ (req[r].kind = "ner" /\ FitFailed(r) /\ ~SpacyFailed(r))
                   => (req[r].nlp1 # None /\ req[r].outcome = "ner")

\* C3: a slot that is Ready is never constructed again and keeps its
\* handle, whatever runs (startup, either handler, a load_models call made
\* for the other slot); so a slot is successfully constructed at most once
\* and never leaves Ready.
C3_ReadyIsFinal ==
    [][ /\ (nlp # None => (nlp' = nlp /\ spacyCalls' = spacyCalls))
        /\ (classifier # None =>
               (classifier' = classifier /\ fitCalls' = fitCalls)) ]_vars

\* load_models was called by a handler while the classifier was Ready,
\* after the startup hook had already called it once: no fit, same handle.
C3_Witness ==
    \E r \in Reqs :
        /\ IsDone(r) /\ startupRan
        /\ req[r].called = 1
        /\ req[r].clf0 # None
        /\ req[r].clf1 = req[r].clf0 /\ req[r].fits = 0
        /\ classifier = req[r].clf0 /\ fitCalls = 1

\* C4 as stated: an NER request is delegated to the engine only on a
\* loaded extractor, and a request that still finds no extractor after its
\* own re-attempt is answered 503 without the engine being invoked.
C4_NoResultUnlessReady ==
    \A r \in Reqs :
        (IsDone(r) /\ req[r].kind = "ner") =>
            /\ (req[r].delegated \/ req[r].outcome = "ner") => req[r].nlp1 # None
            /\ req[r].nlp1 = None =>
                   (req[r].outcome = "503" /\ ~req[r].delegated)

\* C5 as stated: no exception of a model construction leaves load_models;
\* the startup hook ends normally and every request ends with a result or
\* with the 503 response.
C5_NoEscape ==
    /\ phase # "crashed"
    /\ \A r \in Reqs : IsDone(r) => req[r].outcome \in {"ner", "cls", "503"}

\* C6 as stated: a request attempts the construction of its slot at most
\* once, not at all if it finds the slot Ready, and is answered 503 if the
\* slot is still not Ready after its one attempt.
C6_SingleRetry ==
    \A r \in Reqs :
        IsDone(r) =>
            /\ Attempts(r) <= 1
            /\ Own0(r) # None => Attempts(r) = 0
            /\ (Attempts(r) = 1 /\ ~SawReady(r)) => req[r].outcome = "503"

\* C7 as stated: a request on a cold slot mutates that slot only; the
\* construction of the other slot is neither attempted nor completed.
C7_OneSlotOnly ==
    \A r \in Reqs :
        (IsDone(r) /\ Own0(r) = None) =>
            /\ req[r].kind = "ner" =>
                   (req[r].fits = 0 /\ req[r].clf1 = req[r].clf0)
            /\ req[r].kind = "classify" =>
                   (req[r].loads = 0 /\ req[r].nlp1 = req[r].nlp0)

\* C7 as amended: a request on a cold slot calls load_models, which
\* attempts once the construction of every slot that is still None, the
\* other capability's included, and neither constructs again nor changes a
\* slot that is already loaded.
C7_EverySlotStillNone ==
    \A r \in Reqs :
        (IsDone(r) /\ Own0(r) = None) =>
            /\ req[r].called = 1
            /\ req[r].loads = (IF req[r].nlp0 = None THEN 1 ELSE 0)
            /\ req[r].fits = (IF req[r].clf0 = None THEN 1 ELSE 0)
            /\ req[r].nlp0 # None => req[r].nlp1 = req[r].nlp0
            /\ req[r].clf0 # None => req[r].clf1 = req[r].clf0

\* A classify request on a cold classifier whose load_models call also
\* attempted the spaCy load, which failed, and then fitted the classifier.
C7_Witness ==
    \E r \in Reqs :
        /\ IsDone(r) /\ req[r].kind = "classify"
        /\ req[r].clf0 = None /\ req[r].nlp0 = None
        /\ req[r].loads = 1 /\ req[r].nlp1 = None
        /\ req[r].fits = 1 /\ req[r].clf1 # None
        /\ req[r].outcome = "cls"

\* C8 as stated: an NER request that finds the extractor None after an
\* earlier failed load attempts the load again, and if the resource is now
\* loadable the slot becomes Ready and this same request is delegated and
\* answered with an NER result.
C8_RetryServes ==
    \A r \in Reqs :
        (/\ IsDone(r) /\ req[r].kind = "ner"
         /\ req[r].nlp0 = None
         /\ req[r].calls1 - req[r].loads >= 1) =>
            /\ req[r].loads = 1
            /\ req[r].nlp1 # None =>
                   (req[r].delegated /\ req[r].outcome = "ner")

\* The allow-list as the specification gives it.
SpecAllowList ==
    {"PERSON", "ORG", "GPE", "LOC", "PRODUCT", "EVENT", "DATE", "MONEY"}

\* C9: every entity of an NER response carries a label of the allow-list.
C9_OnlyAllowListed ==
    \A i \in 1..Len(entities) : entities[i].label \in SpecAllowList

\* A response with entities, from a document that also held a candidate
\* with a label outside the allow-list.
C9_Witness ==
    /\ \E r \in Reqs : req[r].outcome = "ner"
    /\ Len(entities) >= 1
    /\ \E j \in 1..Len(doc) : doc[j].label \notin SpecAllowList

\* Positions of the allow-listed candidates of the last document.
Allowed == {j \in 1..Len(doc) : doc[j].label \in SpecAllowList}

\* C10: the response is exactly the subsequence of allow-listed candidates
\* in document order: as many entities as allow-listed candidates, and the
\* k-th allow-listed candidate is the k-th entity, text and label.
C10_DocumentOrder ==
    /\ Len(entities) = Cardinality(Allowed)
    /\ \A j \in Allowed :
          LET k == Cardinality({x \in Allowed : x <= j}) IN
            /\ entities[k].text = doc[j].text
            /\ entities[k].label = doc[j].label

\* Two allow-listed candidates of different labels around a candidate that
\* is dropped.
C10_Witness ==
    /\ \E r \in Reqs : req[r].outcome = "ner"
    /\ Len(doc) = 3
    /\ doc[1].label = "MONEY" /\ doc[2].label = "CARDINAL"
    /\ doc[3].label = "PERSON"
    /\ entities = <<Entity(doc[1]), Entity(doc[3])>>

\* C12: the 503 branch of classify_text is never taken.  A load_models call
\* that returns normally leaves the classifier loaded, so a classify
\* request ends with a classification result, or with the exception that
\* pipeline.fit raised in its own load_models call.
C12_Classify503Unreachable ==
    /\ \A r \in Reqs :
          (IsDone(r) /\ req[r].kind = "classify") =>
              /\ req[r].outcome \in {"cls", "exc"}
              /\ req[r].outcome = "exc" => FitFailed(r)
              /\ req[r].outcome = "cls" => req[r].clf1 # None
    /\ \A r \in Reqs :
          (IsDone(r) /\ req[r].called = 1 /\ req[r].outcome # "exc")
              => req[r].clf1 # None
    /\ (startupRan /\ phase = "serving") => classifier # None

\* A classify request that found no classifier, whose fit raised: it ends
\* with that exception, the classifier still None.
C12_Witness ==
    \E r \in Reqs :
        /\ IsDone(r) /\ req[r].kind = "classify"
        /\ req[r].clf0 = None /\ req[r].called = 1
        /\ FitFailed(r)
        /\ req[r].outcome = "exc"
        /\ classifier = None

\* NER requests answered while the extractor stayed not loaded.
FailedNER == {r \in Reqs : IsDone(r) /\ req[r].kind = "ner"
                           /\ req[r].nlp1 = None}

LoadedThenRaised(r) ==
    /\ IsDone(r) /\ req[r].called = 1
    /\ req[r].nlp0 = None /\ req[r].nlp1 # None
    /\ FitFailed(r)

\* C15: in one load_models call the extractor comes before the classifier
\* and is not rolled back.  A call in which pipeline.fit raises has already
\* made its spacy.load call; if that load succeeded the extractor holds
\* that handle from then on, and an NER request that finds it loaded is
\* delegated and answered without calling load_models.
C15_ExtractorBeforeClassifier ==
    /\ \A r \in Reqs :
          (IsDone(r) /\ req[r].called = 1 /\ FitFailed(r)
                     /\ req[r].nlp0 = None) => req[r].loads = 1
    /\ \A r \in Reqs :
          LoadedThenRaised(r) =>
              /\ req[r].outcome = "exc"
              /\ nlp = req[r].nlp1
    /\ \A q \in Reqs :
          (IsDone(q) /\ req[q].kind = "ner" /\ req[q].nlp0 # None) =>
              /\ req[q].called = 0 /\ req[q].loads = 0 /\ req[q].fits = 0
              /\ req[q].delegated /\ req[q].outcome = "ner"

\* A request whose load_models call loaded the extractor and raised from
\* fit, and a later NER request served on that extractor with the
\* classifier still None and no load_models call.
C15_Witness ==
    \E r, q \in Reqs :
        /\ LoadedThenRaised(r)
        /\ r # q /\ IsDone(q) /\ req[q].kind = "ner"
        /\ req[q].nlp0 = req[r].nlp1
        /\ req[q].clf0 = None
        /\ req[q].called = 0 /\ req[q].outcome = "ner"

\* C14: a slot is published only after its construction has returned.  A
\* global that is not None holds an engine whose spacy.load, or a pipeline
\* whose fit, has returned; no handler finds a global holding anything
\* else, and no request is served by anything else.
C14_PublishedAfterConstruction ==
    /\ ~Partial(nlp, classifier, loadedEngines, fittedPipelines)
    /\ \A r \in Reqs :
          IsDone(r) => (~req[r].sawPartial /\ ~req[r].usedPartial)

\* After a fit that raised and published nothing, a later fit returned and
\* its pipeline was published and served a classify request.
C14_Witness ==
    \E r, q \in Reqs :
        /\ IsDone(r) /\ FitFailed(r)
        /\ IsDone(q) /\ req[q].kind = "classify"
        /\ req[q].clf0 = None /\ req[q].fits = 1
        /\ req[q].outcome = "cls"
        /\ classifier = req[q].clf1
        /\ fittedPipelines = {classifier}
        /\ fitCalls >= 2

\* The label set as the specification gives it.
SpecLabels == {"Tech", "Finance", "Health", "Sports"}

\* C11: a classification result carries a category of the trained label
\* set and a confidence in [0, 1] that is the largest class probability of
\* the posterior, which is the probability of the returned category.
C11_ConfidenceOfCategory ==
    category # "none" =>
        /\ category \in SpecLabels
        /\ confidence.den > 0
        /\ 0 <= confidence.num /\ confidence.num <= confidence.den
        /\ confidence.den = Sum(probs)
        /\ \A i \in 1..4 : probs[i] <= confidence.num
        /\ \E i \in 1..4 :
              /\ Classes[i] = category
              /\ probs[i] = confidence.num

\* A result whose category is the last class, alone with the largest
\* probability, one half.
C11_Witness ==
    /\ \E r \in Reqs : req[r].outcome = "cls"
    /\ category = "Tech"
    /\ probs[1] = 1 /\ probs[2] = 0 /\ probs[3] = 1 /\ probs[4] = 2
    /\ confidence = Prob(2, 4)

====
